---- MODULE Spec2Model ----
(***************************************************************************)
(* quantecon/models/solow/impulse_response.py: class ImpulseResponse.      *)
(*                                                                         *)
(* One ImpulseResponse object (self) holds a reference to one Model.  The  *)
(* state is the model's parameter dictionary, the object's _impulse and    *)
(* _kind attributes, the horizon attributes N and T, and, for each caller  *)
(* of the impulse_response getter, its position in the getter and its      *)
(* local variables.                                                        *)
(*                                                                         *)
(* Numbers.  Parameter values are positive integers.  A scaling factor     *)
(* c * exp(e) with c a product of A0, L0 and e a growth rate times a time  *)
(* is kept as the pair [c, e]; for positive integer c and integer e the    *)
(* pair is unique for the number, so equality of pairs is equality of the  *)
(* factors.  The values returned by the Model collaborator (steady state,  *)
(* output, consumption, investment, integrated path) are kept as terms     *)
(* that record the arguments and the parameter dictionary they were        *)
(* computed under.  A scaled entry factor * value is kept as the pair of   *)
(* its factor and its value.                                               *)
(***************************************************************************)
EXTENDS Integers, Sequences, FiniteSets, TLC

\* ------------------------------------------------------------------ bounds
\* N and T are class attributes (defaults 10 and 100) that an instance may
\* override; the model draws them from 0..MaxN and 0..MaxT.
MaxN == 2
MaxT == 1

\* ------------------------------------------------------------ the universe
\* The two callers of the getter.
Threads == {"t1", "t2"}

\* Model.params after the model's construction: the four keys the class
\* reads, and one it never reads.
InitialParams == [A0 |-> 2, L0 |-> 3, g |-> 1, n |-> 2, s |-> 1]

\* The empty dictionary.
EmptyDict == [key \in {} |-> 0]

\* Dictionaries offered to the impulse setter: a shock to a parameter the
\* scaling never reads, two shocks to parameters it reads, and one with a key
\* that Model.params does not have.
ImpulseDicts ==
    { [s |-> 2],
      [L0 |-> 1],
      [A0 |-> 1, g |-> 3, n |-> 3],
      [s |-> 2, nonexistent_param |-> 1] }

\* Values offered to the impulse setter: a dict, or something else (a list).
ImpulseInputs ==
    {[isdict |-> TRUE, val |-> d] : d \in ImpulseDicts}
        \cup {[isdict |-> FALSE, val |-> EmptyDict]}

\* Values offered to the kind setter: strings, and a non-string (the int 42).
KindInputs ==
    {[isstr |-> TRUE, val |-> v] :
        v \in {"levels", "per_capita", "efficiency_units", "bogus"}}
        \cup {[isstr |-> FALSE, val |-> "42"]}

\* An attribute that __init__ never assigned.
Unset == "UNSET"
UnsetImpulse == [isset |-> FALSE, val |-> EmptyDict]

VARIABLES
    params,        \* self.model.params
    impulse,       \* self._impulse: [isset, val]
    kind,          \* self._kind, or Unset
    N,             \* self.N
    T,             \* self.T
    setter_exc,    \* what the last setter call raised, "none" if it returned
    serialized,    \* TRUE: the callers hold an external lock around the getter
    pc,            \* per caller: position in impulse_response
    orig_params,   \* per caller: local orig_params (line 205)
    padding,       \* per caller: value of self._padding (line 208)
    k0,            \* per caller: local k0 of _response_variables (line 131)
    soln,          \* per caller: local soln (line 137)
    tmp_irf,       \* per caller: local tmp_irf (line 208)
    raised         \* per caller: the exception that ended the getter, or "none"

vars == <<params, impulse, kind, N, T, setter_exc, serialized, pc,
          orig_params, padding, k0, soln, tmp_irf, raised>>

locals == <<orig_params, padding, k0, soln, tmp_irf>>

\* ------------------------------------------------------------------ numpy
\* numpy.linspace(start, stop, num) for the two calls the class makes, whose
\* spacing is an integer.
Linspace(start, stop, num) ==
    [i \in 1..num |->
        IF num = 1 THEN start
        ELSE start + ((i - 1) * (stop - start)) \div (num - 1)]

\* numpy.ones(num)
One == [c |-> 1, e |-> 0]
Ones(num) == [i \in 1..num |-> One]

\* scalar * numpy.exp(rate * time): the factor coef * exp(rate * time).
Exp(coef, rate, time) == [c |-> coef, e |-> rate * time]

\* factor * factor
Mul(f1, f2) == [c |-> f1.c * f2.c, e |-> f1.e + f2.e]

\* dict.update(other)
Update(d, other) ==
    [key \in (DOMAIN d) \cup (DOMAIN other) |->
        IF key \in DOMAIN other THEN other[key] ELSE d[key]]

\* ------------------------------------------------- the Model collaborator
\* model.steady_state under the parameters p.
SteadyState(p) == <<"steady_state", p>>

\* model.evaluate_intensive_output(k) and its siblings under the parameters p.
EvaluateIntensiveOutput(k, p) == <<"output", k, p>>
EvaluateConsumption(k, p) == <<"consumption", k, p>>
EvaluateActualInvestment(k, p) == <<"investment", k, p>>

\* model.ivp.solve(t0=0, y0, h=1, T): rows (time, capital) for times 0..T,
\* the first being the initial state.
IvpSolve(y0, horizon, p) ==
    [i \in 1..(horizon + 1) |->
        [time |-> i - 1,
         k    |-> IF i = 1 THEN y0 ELSE <<"ivp", y0, p, i - 1>>]]

\* --------------------------------------------------- properties of the class
\* ImpulseResponse._padding_time
_padding_time == Linspace(-N, -1, N)

\* _padding_scaling_factor with L0 left out of the levels factor.
_padding_scaling_factor_without_L0 ==
    LET A0 == params["A0"]
        g  == params["g"]
        n  == params["n"]
    IN  IF kind = "per_capita"
            THEN [i \in 1..N |-> [c |-> A0, e |-> g * Linspace(-N, -1, N)[i]]]
        ELSE IF kind = "levels"
            THEN [i \in 1..N |-> [c |-> A0, e |-> (g + n) * Linspace(-N, -1, N)[i]]]
        ELSE [i \in 1..N |-> [c |-> 1, e |-> 0]]

\* ImpulseResponse._padding_scaling_factor; the caller has read self.kind.
_padding_scaling_factor ==
    LET A0 == params["A0"]
        L0 == params["L0"]
        g  == params["g"]
        n  == params["n"]
    IN  IF kind = "per_capita"
            THEN [i \in 1..N |-> Exp(A0, g, _padding_time[i])]
        ELSE IF kind = "levels"
            THEN [i \in 1..N |-> Exp(A0 * L0, g + n, _padding_time[i])]
        ELSE Ones(N)

\* ImpulseResponse._padding_variables: factor * [[k0, y0, c0, i0]], one row
\* for each factor.
_padding_variables ==
    LET ss == SteadyState(params)
        y0 == EvaluateIntensiveOutput(ss, params)
        c0 == EvaluateConsumption(ss, params)
        i0 == EvaluateActualInvestment(ss, params)
        intitial_condition == <<ss, y0, c0, i0>>
    IN  [i \in 1..N |->
            [factor |-> _padding_scaling_factor[i],
             quad   |-> intitial_condition]]

\* numpy.hstack((time, variables)): the time column beside the other four.
Hstack(time, variables) ==
    [i \in 1..Len(variables) |->
        [time   |-> time[i],
         factor |-> variables[i].factor,
         quad   |-> variables[i].quad]]

\* ImpulseResponse._padding
_padding == Hstack(_padding_time, _padding_variables)

\* ImpulseResponse._response_time
_response_time == Linspace(0, T, T + 1)

\* _padding_scaling_factor[-1] raises IndexError on an empty array; the two
\* branches of _response_scaling_factor that index it are those of the kinds
\* per_capita and levels.
IndexOutOfBounds ==
    kind \in {"per_capita", "levels"} /\ Len(_padding_scaling_factor) = 0

\* ImpulseResponse._response_scaling_factor
_response_scaling_factor ==
    LET g    == params["g"]
        n    == params["n"]
        time == Linspace(0, T, T + 1)
        last == _padding_scaling_factor[Len(_padding_scaling_factor)]
    IN  IF kind = "per_capita"
            THEN [i \in 1..(T + 1) |-> Mul(last, Exp(1, g, time[i]))]
        ELSE IF kind = "levels"
            THEN [i \in 1..(T + 1) |-> Mul(last, Exp(1, g + n, time[i]))]
        ELSE Ones(T + 1)

\* The tail of ImpulseResponse._response_variables, from "gather the results"
\* on: the integrated capital, the three evaluations, the scaling.
GatherResults(solution) ==
    [i \in 1..Len(solution) |->
        LET k == solution[i].k
        IN  [factor |-> _response_scaling_factor[i],
             quad   |-> <<k,
                          EvaluateIntensiveOutput(k, params),
                          EvaluateConsumption(k, params),
                          EvaluateActualInvestment(k, params)>>]]

\* ------------------------------------------------------------- validation
\* _validate_impulse without its test of the keys.
_validate_impulse_type_only(value) == ~value.isdict

\* ImpulseResponse._validate_impulse: TRUE when it raises AttributeError.
_validate_impulse(value) ==
    IF ~value.isdict THEN TRUE
    ELSE IF ~((DOMAIN value.val) \subseteq (DOMAIN params)) THEN TRUE
    ELSE FALSE

\* ImpulseResponse._validate_kind: TRUE when it raises AttributeError.  The
\* test isinstance(value, unicode) is the Python 2 one; a str passes the first
\* disjunct on either Python.
_validate_kind(value) ==
    IF ~value.isstr THEN TRUE
    ELSE IF value.val \notin {"levels", "per_capita", "efficiency_units"}
        THEN TRUE
    ELSE FALSE

\* ---------------------------------------------------------------- actions
InFlight(t) == pc[t] \notin {"idle", "returned", "raised"}

\* Single-threaded use: nothing else runs while a getter call is in progress.
Exclusive(t) == serialized => \A u \in Threads \ {t} : ~InFlight(u)

\* The getter's frame is left: its locals are gone.  orig_params is kept as
\* the record of the snapshot the call took, and tmp_irf holds the value
\* returned, if any.
LeaveFrame(t, result) ==
    /\ padding' = [padding EXCEPT ![t] = <<>>]
    /\ k0' = [k0 EXCEPT ![t] = <<>>]
    /\ soln' = [soln EXCEPT ![t] = <<>>]
    /\ tmp_irf' = [tmp_irf EXCEPT ![t] = result]
    /\ UNCHANGED orig_params

\* The getter ends with the exception exc.
Raise(t, exc) ==
    /\ pc' = [pc EXCEPT ![t] = "raised"]
    /\ raised' = [raised EXCEPT ![t] = exc]
    /\ LeaveFrame(t, <<>>)

\* The setters are called between getter calls, not during one: line 285-287
\* (plot_impulse_response) set kind and impulse and then read the getter.
Configuring == \A u \in Threads : ~InFlight(u)

\* impulse.setter
set_impulse(value) ==
    /\ Configuring
    /\ IF _validate_impulse(value)
          THEN /\ setter_exc' = "AttributeError"
               /\ UNCHANGED impulse
          ELSE /\ setter_exc' = "none"
               /\ impulse' = [isset |-> TRUE, val |-> value.val]
    /\ UNCHANGED <<params, kind, N, T, serialized, pc, locals, raised>>

\* kind.setter
set_kind(value) ==
    /\ Configuring
    /\ IF _validate_kind(value)
          THEN /\ setter_exc' = "AttributeError"
               /\ UNCHANGED kind
          ELSE /\ setter_exc' = "none"
               /\ kind' = value.val
    /\ UNCHANGED <<params, impulse, N, T, serialized, pc, locals, raised>>

\* impulse_response, line 205: orig_params = self.model.params.copy()
Snapshot(t) ==
    /\ pc[t] = "idle"
    /\ Exclusive(t)
    /\ orig_params' = [orig_params EXCEPT ![t] = params]
    /\ pc' = [pc EXCEPT ![t] = "padding"]
    /\ UNCHANGED <<params, impulse, kind, N, T, setter_exc, serialized,
                   padding, k0, soln, tmp_irf, raised>>

\* impulse_response, line 208, first element: self._padding.  Reading
\* self.kind raises AttributeError when _kind was never assigned.
Padding(t) ==
    /\ pc[t] = "padding"
    /\ Exclusive(t)
    /\ IF kind = Unset
          THEN Raise(t, "AttributeError: _kind")
          ELSE /\ padding' = [padding EXCEPT ![t] = _padding]
               /\ pc' = [pc EXCEPT ![t] = "steady"]
               /\ UNCHANGED <<orig_params, k0, soln, tmp_irf, raised>>
    /\ UNCHANGED <<params, impulse, kind, N, T, setter_exc, serialized>>

\* _response_variables, line 131: k0 = self.model.steady_state
Steady(t) ==
    /\ pc[t] = "steady"
    /\ Exclusive(t)
    /\ k0' = [k0 EXCEPT ![t] = SteadyState(params)]
    /\ pc' = [pc EXCEPT ![t] = "apply"]
    /\ UNCHANGED <<params, impulse, kind, N, T, setter_exc, serialized,
                   orig_params, padding, soln, tmp_irf, raised>>

\* ApplyImpulse with the snapshot taken again after the merge.
ApplyImpulse_snapshot_after_merge(t) ==
    /\ pc[t] = "apply"
    /\ Exclusive(t)
    /\ IF ~impulse.isset
          THEN /\ Raise(t, "AttributeError: _impulse")
               /\ UNCHANGED params
          ELSE /\ params' = Update(params, impulse.val)
               /\ orig_params' = [orig_params EXCEPT ![t] = params']
               /\ pc' = [pc EXCEPT ![t] = "solve"]
               /\ UNCHANGED <<padding, k0, soln, tmp_irf, raised>>
    /\ UNCHANGED <<impulse, kind, N, T, setter_exc, serialized>>

\* _response_variables, line 134: self.model.params.update(self.impulse).
\* Reading self.impulse raises AttributeError when _impulse was never assigned.
ApplyImpulse(t) ==
    /\ pc[t] = "apply"
    /\ Exclusive(t)
    /\ IF ~impulse.isset
          THEN /\ Raise(t, "AttributeError: _impulse")
               /\ UNCHANGED params
          ELSE /\ params' = Update(params, impulse.val)
               /\ pc' = [pc EXCEPT ![t] = "solve"]
               /\ UNCHANGED <<locals, raised>>
    /\ UNCHANGED <<impulse, kind, N, T, setter_exc, serialized>>

\* Solve started from the steady state of the parameters as they are now,
\* after the merge, instead of the local k0.
Solve_from_current_steady_state(t) ==
    /\ pc[t] = "solve"
    /\ Exclusive(t)
    /\ \/ /\ soln' = [soln EXCEPT ![t] = IvpSolve(SteadyState(params), T, params)]
          /\ pc' = [pc EXCEPT ![t] = "gather"]
          /\ UNCHANGED <<orig_params, padding, k0, tmp_irf, raised>>
       \/ Raise(t, "IntegrationError")
    /\ UNCHANGED <<params, impulse, kind, N, T, setter_exc, serialized>>

\* _response_variables, line 137: soln = self.model.ivp.solve(...), which
\* returns the path or raises.
Solve(t) ==
    /\ pc[t] = "solve"
    /\ Exclusive(t)
    /\ \/ /\ soln' = [soln EXCEPT ![t] = IvpSolve(k0[t], T, params)]
          /\ pc' = [pc EXCEPT ![t] = "gather"]
          /\ UNCHANGED <<orig_params, padding, k0, tmp_irf, raised>>
       \/ Raise(t, "IntegrationError")
    /\ UNCHANGED <<params, impulse, kind, N, T, setter_exc, serialized>>

\* _response_variables, lines 141-146, _response, and the vstack of line 208.
Gather(t) ==
    /\ pc[t] = "gather"
    /\ Exclusive(t)
    /\ IF IndexOutOfBounds
          THEN Raise(t, "IndexError")
          ELSE /\ tmp_irf' = [tmp_irf EXCEPT ![t] =
                      padding[t] \o Hstack(_response_time, GatherResults(soln[t]))]
               /\ pc' = [pc EXCEPT ![t] = "restore"]
               /\ UNCHANGED <<orig_params, padding, k0, soln, raised>>
    /\ UNCHANGED <<params, impulse, kind, N, T, setter_exc, serialized>>

\* Restore without line 211: the table is returned, the parameters stay.
Restore_without_update(t) ==
    /\ pc[t] = "restore"
    /\ Exclusive(t)
    /\ pc' = [pc EXCEPT ![t] = "returned"]
    /\ LeaveFrame(t, tmp_irf[t])
    /\ UNCHANGED <<params, impulse, kind, N, T, setter_exc, serialized, raised>>

\* impulse_response, lines 211-213: self.model.params.update(orig_params);
\* return tmp_irf
Restore(t) ==
    /\ pc[t] = "restore"
    /\ Exclusive(t)
    /\ params' = Update(params, orig_params[t])
    /\ pc' = [pc EXCEPT ![t] = "returned"]
    /\ LeaveFrame(t, tmp_irf[t])
    /\ UNCHANGED <<impulse, kind, N, T, setter_exc, serialized, raised>>

\* --------------------------------------------------------- specifications
InitState ==
    /\ params = InitialParams
    /\ impulse = UnsetImpulse
    /\ kind = Unset
    /\ N \in 0..MaxN
    /\ T \in 0..MaxT
    /\ setter_exc = "none"
    /\ pc = [t \in Threads |-> "idle"]
    /\ orig_params = [t \in Threads |-> EmptyDict]
    /\ padding = [t \in Threads |-> <<>>]
    /\ k0 = [t \in Threads |-> <<>>]
    /\ soln = [t \in Threads |-> <<>>]
    /\ tmp_irf = [t \in Threads |-> <<>>]
    /\ raised = [t \in Threads |-> "none"]

\* Single-threaded use, as the class is written for.
Init == InitState /\ serialized = TRUE

\* Two callers, with or without a lock around the getter.
InitConc == InitState /\ serialized \in BOOLEAN

Next ==
    \/ \E value \in ImpulseInputs : set_impulse(value)
    \/ \E value \in KindInputs : set_kind(value)
    \/ \E t \in Threads : Snapshot(t)
    \/ \E t \in Threads : Padding(t)
    \/ \E t \in Threads : Steady(t)
    \/ \E t \in Threads : ApplyImpulse(t)
    \/ \E t \in Threads : Solve(t)
    \/ \E t \in Threads : Gather(t)
    \/ \E t \in Threads : Restore(t)

Spec == Init /\ [][Next]_vars

SpecConc == InitConc /\ [][Next]_vars

\* ------------------------------------------------------------- the claims
ValidKinds == {"levels", "per_capita", "efficiency_units"}

\* The growth rate of a kind under the parameters p.
Rate(kd, p) == IF kd = "per_capita" THEN p["g"] ELSE p["g"] + p["n"]

\* The level term of a kind under the parameters p.
Level(kd, p) == IF kd = "per_capita" THEN p["A0"] ELSE p["A0"] * p["L0"]

\* The scaling factor of the design at time tm: A0 exp(g tm), A0 L0 exp((g+n) tm)
\* or 1.
Factor(kd, p, tm) ==
    IF kd \in {"per_capita", "levels"}
        THEN [c |-> Level(kd, p), e |-> Rate(kd, p) * tm]
        ELSE [c |-> 1, e |-> 0]

\* (k, output(k), consumption(k), investment(k)) under the parameters p.
Quadruple(k, p) ==
    <<k, EvaluateIntensiveOutput(k, p), EvaluateConsumption(k, p),
      EvaluateActualInvestment(k, p)>>

\* The capital at time j of the path integrated from y0 under p.
Path(y0, p, j) == IF j = 0 THEN y0 ELSE <<"ivp", y0, p, j>>

\* The impulse changes some parameter of p.
Shocks(p) == impulse.isset /\ Update(p, impulse.val) # p

\* The row of the table of caller t at time tm (-N..T).
Row(t, tm) == tmp_irf[t][N + 1 + tm]

\* C1: when the getter returns, Model.params is what it was immediately
\* before the call (the value the call's first statement copied): same keys,
\* same value for every key, whatever the impulse and the kind.
C1_ParamsRestoredOnReturn ==
    [][\A t \in Threads :
          (pc[t] = "restore" /\ pc'[t] = "returned")
              => /\ DOMAIN params' = DOMAIN orig_params[t]
                 /\ \A key \in DOMAIN params' : params'[key] = orig_params[t][key]]_vars

\* C1's case: a call has returned whose impulse changes a parameter, for a
\* kind that rescales.
C1_Witness ==
    \E t \in Threads :
        /\ pc[t] = "returned"
        /\ kind = "levels"
        /\ Shocks(orig_params[t])
        /\ params = orig_params[t]

\* C2: when a step after the merge of the impulse fails (the integration, or
\* the scaling of the response), Model.params is back at the call's snapshot
\* when the error reaches the caller.
C2_ParamsRestoredOnError ==
    [][\A t \in Threads :
          (pc[t] \in {"solve", "gather"} /\ pc'[t] = "raised")
              => params' = orig_params[t]]_vars

C4_ResponseAnchoredOnPaddingRow ==
    \A t \in Threads :
        (pc[t] = "restore" /\ kind \in {"per_capita", "levels"}) =>
            \E p \in {orig_params[t], params} :
                \A j \in 0..T :
                    Row(t, j).factor =
                        Mul(Row(t, -1).factor, Exp(1, Rate(kind, p), j))

\* C5: under per_capita or levels the response row at time 0 is one step of
\* growth above the padding row at time -1: its factor is that row's factor
\* times exp(rate), that is A0 (per_capita) or A0 L0 (levels).  Stated for the
\* calls whose impulse leaves A0, L0, g and n alone, where the parameters
\* before and after the shock give the same level and the same rate.
C5_ResponseStartsOneStepAbovePadding ==
    \A t \in Threads :
        (/\ pc[t] = "restore"
         /\ kind \in {"per_capita", "levels"}
         /\ \A key \in {"A0", "L0", "g", "n"} : params[key] = orig_params[t][key])
            => /\ Row(t, 0).factor =
                      Mul(Row(t, -1).factor, Exp(1, Rate(kind, params), 1))
               /\ Row(t, 0).factor = Factor(kind, params, 0)

\* C6: for every N >= 0, T >= 0 and kind the getter builds a table of
\* N + T + 1 rows with times -N..T in unit steps; it does not fail on the
\* empty padding of N = 0.
C6_TableShape ==
    \A t \in Threads :
        /\ raised[t] # "IndexError"
        /\ pc[t] \in {"restore", "returned"} =>
              /\ Len(tmp_irf[t]) = N + T + 1
              /\ \A i \in 1..(N + T + 1) :
                    /\ tmp_irf[t][i].time = i - 1 - N
                    /\ Len(tmp_irf[t][i].quad) = 4

\* C7: the padding row at time tm (-N..-1) is f(tm) times the quadruple of
\* the steady state, both under the parameters before the shock; f is
\* A0 exp(g tm), A0 L0 exp((g+n) tm), or 1 for efficiency_units.
C7_PaddingRows ==
    \A t \in Threads :
        /\ pc[t] \in {"steady", "apply", "solve", "gather", "restore"} =>
              /\ Len(padding[t]) = N
              /\ \A i \in 1..N :
                    /\ padding[t][i].time = i - 1 - N
                    /\ padding[t][i].factor = Factor(kind, orig_params[t], i - 1 - N)
                    /\ padding[t][i].quad =
                           Quadruple(SteadyState(orig_params[t]), orig_params[t])
        /\ pc[t] = "restore" =>
              \A i \in 1..N : tmp_irf[t][i] = padding[t][i]

\* C7's case: a table with two or more padding rows is built for a kind that
\* rescales, after an impulse that changed a parameter.
C7_Witness ==
    \E t \in Threads :
        /\ pc[t] = "restore"
        /\ N >= 2
        /\ kind = "levels"
        /\ params # orig_params[t]

\* C8: one of the three kinds is active in every state, efficiency_units at
\* first: a call made before any kind was set does not fail for the missing
\* kind.
C8_DefaultKind ==
    \A t \in Threads : raised[t] # "AttributeError: _kind"

\* C9: when the calls of the two callers are serialized and both have
\* returned, Model.params is what it was before either call.
C9_SerializedCallsRestore ==
    (serialized /\ \A t \in Threads : pc[t] = "returned")
        => params = InitialParams

\* C9's case: the two calls interleaved, both have returned, and Model.params
\* is not what it was before either call.
C9_Witness ==
    /\ ~serialized
    /\ \A t \in Threads : pc[t] = "returned"
    /\ params # InitialParams

\* C10: the padding block and the integration's initial state come from the
\* steady state under the parameters before the shock, which are untouched
\* until both are taken; the merge overwrites the impulse's keys and no other;
\* the path (from time 0, in unit steps, to T) and the three evaluations along
\* it are under the parameters after the shock.
C10_OrderOfSteps ==
    \A t \in Threads :
        /\ pc[t] \in {"padding", "steady", "apply"} => params = orig_params[t]
        /\ pc[t] = "restore" =>
              LET pre  == orig_params[t]
                  post == [key \in DOMAIN pre |->
                              IF key \in DOMAIN impulse.val
                                  THEN impulse.val[key] ELSE pre[key]]
              IN  /\ params = post
                  /\ \A tm \in (-N)..(-1) :
                        Row(t, tm).quad = Quadruple(SteadyState(pre), pre)
                  /\ \A j \in 0..T :
                        /\ Row(t, j).time = j
                        /\ Row(t, j).quad =
                               Quadruple(Path(SteadyState(pre), post, j), post)

\* C10's case: a table with padding and an integrated row is built after an
\* impulse that changed a parameter.
C10_Witness ==
    \E t \in Threads :
        /\ pc[t] = "restore"
        /\ N >= 1
        /\ T >= 1
        /\ params # orig_params[t]

====
